---- MODULE Spec2Model ----
(***************************************************************************)
(* The SASL DIGEST-MD5 authenticator of the jackal XMPP server             *)
(* (server/digestMD5Authenticator) and the part of the storage singleton   *)
(* it consults.                                                            *)
(*                                                                         *)
(* Strings are sequences of tokens.  A token is a one-character string     *)
(* where the code slices or scans by character (the domain, the            *)
(* digest-uri, the separators , = " :) and an atom standing for a fixed    *)
(* word elsewhere (a key, "00000001", "auth", a user name, a nonce).       *)
(* MD5 is the ideal hash: md5Hash and hex.EncodeToString wrap their        *)
(* argument in brackets, so two digests are equal exactly when their       *)
(* inputs are.                                                             *)
(***************************************************************************)
EXTENDS Integers, Sequences, FiniteSets, TLC

VARIABLES
    state,          \* d.state
    username,       \* d.username
    authenticated,  \* d.authenticated
    mockedError,    \* the storage's mocked-error switch
    call,           \* the last call made on the session, with what it returned
    trail,          \* the calls that returned nil since construction or the last
                    \* Reset, up to the one that set d.authenticated
    sent,           \* the elements handed to strm.SendElement since then
    looked,         \* the credentials FetchUser returned since then
    lookups,        \* the number of FetchUser calls since then
    refused,        \* a call made in Challenged has returned an error since then
    inst,           \* storage.inst
    initialized,    \* storage.initialized
    instMu,         \* storage.instMu: the thread holding it locked, those holding
                    \* it read-locked
    pc,             \* where each thread is in its call of the storage package
    cfgType,        \* cfg.Type of each thread's call of Initialize
    crashed,        \* how the process ended, if it has
    initReturned,   \* a call of Initialize has returned
    afterInit,      \* the thread's call of Instance began after one had
    invoked,        \* the functions of the storage package called so far
    built           \* the backends constructed since inst was last set to nil

\* the session and what is recorded of its calls
sessionVars ==
    <<state, username, authenticated, call, trail, sent, looked, lookups, refused>>

\* the storage package's variables and what is recorded of its calls
storageVars ==
    <<inst, initialized, instMu, pc, cfgType, crashed, initReturned, afterInit,
      invoked, built>>

vars == <<sessionVars, mockedError, storageVars>>

----------------------------------------------------------------------------
(* Bounds of the model. *)

\* how many distinct nonces util.RandomBytes can return
NumNonces == 2

\* how many FetchUser calls are followed between two Resets
MaxLookups == 2

\* how many threads call the storage package
NumThreads == 2

----------------------------------------------------------------------------
(* digestMD5State *)

startDigestMD5State == "start"
challengedDigestMD5State == "challenged"
authenticatedDigestMD5State == "authenticated"

digestMD5States ==
    {startDigestMD5State, challengedDigestMD5State, authenticatedDigestMD5State}

(* The errors ProcessElement returns. *)
nil == "nil"
errSASLNotAuthorized == "errSASLNotAuthorized"
errSASLMalformedRequest == "errSASLMalformedRequest"
errSASLIncorrectEncoding == "errSASLIncorrectEncoding"
ErrMockedError == "ErrMockedError"

----------------------------------------------------------------------------
(* Strings. *)

EmptyStr == <<>>

\* strings.HasPrefix
HasPrefix(s, p) == Len(s) >= Len(p) /\ SubSeq(s, 1, Len(p)) = p

\* strings.HasSuffix
HasSuffix(s, p) ==
    Len(s) >= Len(p) /\ SubSeq(s, Len(s) - Len(p) + 1, Len(s)) = p

\* strings.TrimPrefix
TrimPrefix(s, p) == IF HasPrefix(s, p) THEN SubSeq(s, Len(p) + 1, Len(s)) ELSE s

\* strings.TrimSuffix
TrimSuffix(s, p) == IF HasSuffix(s, p) THEN SubSeq(s, 1, Len(s) - Len(p)) ELSE s

\* the index of the first sep in s at or after i, 0 when there is none
RECURSIVE IndexFrom(_, _, _)
IndexFrom(s, sep, i) ==
    IF i > Len(s) THEN 0 ELSE IF s[i] = sep THEN i ELSE IndexFrom(s, sep, i + 1)

\* the index of the first sep in s, 0 when there is none
IndexByte(s, sep) == IndexFrom(s, sep, 1)

\* strings.Split(s, sep): the pieces of s between the separators
RECURSIVE Split(_, _)
Split(s, sep) ==
    LET i == IndexByte(s, sep)
    IN  IF i = 0
        THEN <<s>>
        ELSE <<SubSeq(s, 1, i - 1)>> \o Split(SubSeq(s, i + 1, Len(s)), sep)

\* util.SplitKeyAndValue(str, sep): around the first sep; both empty without one
SplitKeyAndValue(str, sep) ==
    LET j == IndexByte(str, sep)
    IN  IF j = 0
        THEN [key |-> EmptyStr, val |-> EmptyStr]
        ELSE [key |-> SubSeq(str, 1, j - 1), val |-> SubSeq(str, j + 1, Len(str))]

\* base64.StdEncoding.EncodeToString: every symbol of the text is in the alphabet
EncodeToString(b) == [i \in 1..Len(b) |-> <<"b64", b[i]>>]

\* base64.StdEncoding.DecodeString: fails on a symbol outside the alphabet
DecodeString(text) ==
    IF \E i \in 1..Len(text) : text[i][1] # "b64"
    THEN [b |-> EmptyStr, err |-> TRUE]
    ELSE [b |-> [i \in 1..Len(text) |-> text[i][2]], err |-> FALSE]

\* md5.New / Write / Sum
md5Hash(b) == <<"md5(">> \o b \o <<")">>

\* hex.EncodeToString
hexEncodeToString(b) == <<"hex(">> \o b \o <<")">>

----------------------------------------------------------------------------
(* digestMD5Parameters and its parser. *)

ZeroParameters ==
    [username |-> EmptyStr, realm |-> EmptyStr, nonce |-> EmptyStr,
     cnonce |-> EmptyStr, nc |-> EmptyStr, qop |-> EmptyStr,
     servType |-> EmptyStr, digestURI |-> EmptyStr, response |-> EmptyStr,
     charset |-> EmptyStr, authID |-> EmptyStr]

setParameter(r, p) ==
    LET kv  == SplitKeyAndValue(p, "=")
        key == kv.key
        val == TrimSuffix(TrimPrefix(kv.val, <<"\"">>), <<"\"">>)
    IN  CASE key = <<"username">>   -> [r EXCEPT !.username = val]
          [] key = <<"realm">>      -> [r EXCEPT !.realm = val]
          [] key = <<"nonce">>      -> [r EXCEPT !.nonce = val]
          [] key = <<"cnonce">>     -> [r EXCEPT !.cnonce = val]
          [] key = <<"nc">>         -> [r EXCEPT !.nc = val]
          [] key = <<"qop">>        -> [r EXCEPT !.qop = val]
          [] key = <<"serv-type">>  -> [r EXCEPT !.servType = val]
          [] key = <<"digest-uri">> -> [r EXCEPT !.digestURI = val]
          [] key = <<"response">>   -> [r EXCEPT !.response = val]
          [] key = <<"charset">>    -> [r EXCEPT !.charset = val]
          [] key = <<"authzid">>    -> [r EXCEPT !.authID = val]
          [] OTHER                  -> r

RECURSIVE setParameters(_, _, _)
setParameters(params, s, i) ==
    IF i > Len(s) THEN params ELSE setParameters(setParameter(params, s[i]), s, i + 1)

parseParameters(str) == setParameters(ZeroParameters, Split(str, ","), 1)

computeResponse(params, user, asClient) ==
    LET x   == params.username \o <<":">> \o params.realm \o <<":">> \o user.Password
        y   == md5Hash(x)
        a1  == y \o <<":">> \o params.nonce \o <<":">> \o params.cnonce
                 \o (IF Len(params.authID) > 0 THEN <<":">> \o params.authID ELSE <<>>)
        c   == IF asClient THEN <<"AUTHENTICATE">> ELSE <<>>
        a2  == c \o <<":">> \o params.digestURI
        ha1 == hexEncodeToString(md5Hash(a1))
        ha2 == hexEncodeToString(md5Hash(a2))
        kd  == ha1 \o <<":">> \o params.nonce \o <<":">> \o params.nc
                   \o <<":">> \o params.cnonce \o <<":">> \o params.qop
                   \o <<":">> \o ha2
    IN  hexEncodeToString(md5Hash(kd))

----------------------------------------------------------------------------
(* The stream and the storage the authenticator consults. *)

\* d.strm.Domain()
Domain == <<"j", "k">>

\* the users in the storage
Users ==
    { [Username |-> <<"alice">>, Password |-> <<"secret">>],
      [Username |-> <<"bob">>, Password |-> <<"hunter2">>] }

\* a nil *model.User
NilUser == [Username |-> EmptyStr, Password |-> EmptyStr, isNil |-> TRUE]

\* storage.Instance().FetchUser(username)
FetchUser(name, mocked) ==
    IF mocked
    THEN [user |-> NilUser, err |-> ErrMockedError]
    ELSE IF \E u \in Users : u.Username = name
    THEN LET u == CHOOSE u \in Users : u.Username = name
         IN  [user |-> [Username |-> u.Username, Password |-> u.Password,
                        isNil |-> FALSE],
              err |-> nil]
    ELSE [user |-> NilUser, err |-> nil]

\* xml.NewElementNamespace(name, saslNamespace) with SetText(text)
NewElement(name, text) == [name |-> name, text |-> text]

----------------------------------------------------------------------------
(* digestMD5Authenticator.  A method is an operator from the session d (and  *)
(* what the method reads besides) to what the call leaves: the session, the  *)
(* error returned, the elements sent, the FetchUser calls made and the       *)
(* credentials they returned.                                                *)

Return(d, err, out, n, fetched) ==
    [d |-> d, err |-> err, out |-> out, lookups |-> n, fetched |-> fetched]

newDigestMD5 ==
    [state |-> startDigestMD5State, username |-> EmptyStr, authenticated |-> FALSE]

Authenticated(d) == d.authenticated

Username(d) == d.username

\* Reset with the username left in place
ResetKeepsUsername(d) ==
    [d EXCEPT !.state = startDigestMD5State, !.authenticated = FALSE]

Reset(d) ==
    [d EXCEPT !.state = startDigestMD5State,
              !.username = EmptyStr,
              !.authenticated = FALSE]

\* handleStart without the challenge element
handleStartNoChallenge(d, elem, nonce) ==
    Return([d EXCEPT !.state = challengedDigestMD5State], nil, <<>>, 0, {})

handleStart(d, elem, nonce) ==
    LET domain == Domain
        chnge  == <<"realm", "=", "\"">> \o domain \o <<"\"", ",">>
                    \o <<"nonce", "=", "\"">> \o nonce \o <<"\"", ",">>
                    \o <<"qop", "=", "\"", "auth", "\"", ",">>
                    \o <<"charset", "=", "utf-8", ",">>
                    \o <<"algorithm", "=", "md5-sess">>
        respElem == NewElement("challenge", EncodeToString(chnge))
    IN  Return([d EXCEPT !.state = challengedDigestMD5State],
               nil, <<respElem>>, 0, {})

\* handleChallenged with one slip v made in it:
\*   "noEmptyCheck"   the empty text is not refused before decoding
\*   "noNcCheck"      nc is not validated
\*   "userOracle"     an unknown user gets an error of its own
\*   "swallowError"   a storage error is reported as not-authorized
\*   "noUsername"     d.username is not set on success
\*   "earlyUsername"  d.username is set before the digest is compared
\*   "lookupFirst"    the user is looked up before the parameters are validated
\*   "lookupBeforeURI" the user is looked up before digest-uri is validated
\*   "backToStart"    a refused digest sends the session back to Start
handleChallengedSlip(d, elem, mocked, v) ==
    LET dec        == DecodeString(elem.text)
        params     == parseParameters(dec.b)
        fu         == FetchUser(params.username, mocked)
        user       == fu.user
        clientResp == computeResponse(params, user, TRUE)
        serverResp == computeResponse(params, user, FALSE)
        respAuth   == <<"rspauth", "=">> \o serverResp
        respElem   == NewElement("challenge", EncodeToString(respAuth))
        \* the lookups made when the first four checks, and the fifth, return
        n4         == IF v = "lookupFirst" THEN 1 ELSE 0
        n5         == IF v \in {"lookupFirst", "lookupBeforeURI"} THEN 1 ELSE 0
    IN  IF v # "noEmptyCheck" /\ Len(elem.text) = 0
        THEN Return(d, errSASLMalformedRequest, <<>>, 0, {})
        ELSE IF dec.err THEN Return(d, errSASLIncorrectEncoding, <<>>, 0, {})
        ELSE IF v = "lookupFirst" /\ fu.err # nil THEN Return(d, fu.err, <<>>, 1, {})
        ELSE IF params.realm # Domain THEN Return(d, errSASLNotAuthorized, <<>>, n4, {})
        ELSE IF v # "noNcCheck" /\ params.nc # <<"00000001">>
        THEN Return(d, errSASLNotAuthorized, <<>>, n4, {})
        ELSE IF params.qop # <<"auth">>
        THEN Return(d, errSASLNotAuthorized, <<>>, n4, {})
        ELSE IF Len(params.servType) > 0 /\ params.servType # <<"xmpp">>
        THEN Return(d, errSASLNotAuthorized, <<>>, n4, {})
        ELSE IF v = "lookupBeforeURI" /\ fu.err # nil
        THEN Return(d, fu.err, <<>>, 1, {})
        ELSE IF \/ ~HasPrefix(params.digestURI, <<"x", "m", "p", "p", "/">>)
                \/ SubSeq(params.digestURI, 6, Len(params.digestURI)) # Domain
        THEN Return(d, errSASLNotAuthorized, <<>>, n5, {})
        ELSE IF fu.err # nil
        THEN Return(d, IF v = "swallowError" THEN errSASLNotAuthorized ELSE fu.err,
                    <<>>, 1, {})
        ELSE IF user.isNil
        THEN Return(d, IF v = "userOracle" THEN "errUserNotFound"
                                           ELSE errSASLNotAuthorized,
                    <<>>, 1, {})
        ELSE IF clientResp # params.response
        THEN Return(IF v = "earlyUsername"
                    THEN [d EXCEPT !.username = user.Username]
                    ELSE IF v = "backToStart"
                    THEN [d EXCEPT !.state = startDigestMD5State]
                    ELSE d,
                    errSASLNotAuthorized, <<>>, 1, {user})
        ELSE Return([d EXCEPT !.username = IF v = "noUsername" THEN d.username
                                                              ELSE user.Username,
                              !.state = authenticatedDigestMD5State],
                    nil, <<respElem>>, 1, {user})

handleChallengedNoEmptyCheck(d, elem, mocked) ==
    handleChallengedSlip(d, elem, mocked, "noEmptyCheck")

handleChallengedNoNcCheck(d, elem, mocked) ==
    handleChallengedSlip(d, elem, mocked, "noNcCheck")

handleChallengedUserOracle(d, elem, mocked) ==
    handleChallengedSlip(d, elem, mocked, "userOracle")

handleChallengedSwallowError(d, elem, mocked) ==
    handleChallengedSlip(d, elem, mocked, "swallowError")

handleChallengedNoUsername(d, elem, mocked) ==
    handleChallengedSlip(d, elem, mocked, "noUsername")

handleChallengedEarlyUsername(d, elem, mocked) ==
    handleChallengedSlip(d, elem, mocked, "earlyUsername")

handleChallengedLookupFirst(d, elem, mocked) ==
    handleChallengedSlip(d, elem, mocked, "lookupFirst")

handleChallengedLookupBeforeURI(d, elem, mocked) ==
    handleChallengedSlip(d, elem, mocked, "lookupBeforeURI")

handleChallengedBackToStart(d, elem, mocked) ==
    handleChallengedSlip(d, elem, mocked, "backToStart")

handleChallenged(d, elem, mocked) ==
    LET dec        == DecodeString(elem.text)
        params     == parseParameters(dec.b)
        fu         == FetchUser(params.username, mocked)
        user       == fu.user
        clientResp == computeResponse(params, user, TRUE)
        serverResp == computeResponse(params, user, FALSE)
        respAuth   == <<"rspauth", "=">> \o serverResp
        respElem   == NewElement("challenge", EncodeToString(respAuth))
    IN  IF Len(elem.text) = 0 THEN Return(d, errSASLMalformedRequest, <<>>, 0, {})
        ELSE IF dec.err THEN Return(d, errSASLIncorrectEncoding, <<>>, 0, {})
        ELSE IF params.realm # Domain THEN Return(d, errSASLNotAuthorized, <<>>, 0, {})
        ELSE IF params.nc # <<"00000001">>
        THEN Return(d, errSASLNotAuthorized, <<>>, 0, {})
        ELSE IF params.qop # <<"auth">>
        THEN Return(d, errSASLNotAuthorized, <<>>, 0, {})
        ELSE IF Len(params.servType) > 0 /\ params.servType # <<"xmpp">>
        THEN Return(d, errSASLNotAuthorized, <<>>, 0, {})
        ELSE IF \/ ~HasPrefix(params.digestURI, <<"x", "m", "p", "p", "/">>)
                \/ SubSeq(params.digestURI, 6, Len(params.digestURI)) # Domain
        THEN Return(d, errSASLNotAuthorized, <<>>, 0, {})
        ELSE IF fu.err # nil THEN Return(d, fu.err, <<>>, 1, {})
        ELSE IF user.isNil THEN Return(d, errSASLNotAuthorized, <<>>, 1, {})
        ELSE IF clientResp # params.response
        THEN Return(d, errSASLNotAuthorized, <<>>, 1, {user})
        ELSE Return([d EXCEPT !.username = user.Username,
                              !.state = authenticatedDigestMD5State],
                    nil, <<respElem>>, 1, {user})

\* handleAuthenticated without the success element
handleAuthenticatedNoSuccess(d, elem) ==
    Return([d EXCEPT !.authenticated = TRUE], nil, <<>>, 0, {})

handleAuthenticated(d, elem) ==
    Return([d EXCEPT !.authenticated = TRUE],
           nil, <<NewElement("success", EmptyStr)>>, 0, {})

\* ProcessElement without the d.Authenticated() test it starts with
ProcessElementNoAuthenticatedTest(d, elem, nonce, mocked) ==
    IF elem.name = "auth" /\ d.state = startDigestMD5State
    THEN handleStart(d, elem, nonce)
    ELSE IF elem.name = "response" /\ d.state = challengedDigestMD5State
    THEN handleChallenged(d, elem, mocked)
    ELSE IF elem.name = "response" /\ d.state = authenticatedDigestMD5State
    THEN handleAuthenticated(d, elem)
    ELSE Return(d, errSASLNotAuthorized, <<>>, 0, {})

\* ProcessElement without the switch on d.state under case "auth"
ProcessElementAuthAnyState(d, elem, nonce, mocked) ==
    IF Authenticated(d) THEN Return(d, nil, <<>>, 0, {})
    ELSE IF elem.name = "auth"
    THEN handleStart(d, elem, nonce)
    ELSE IF elem.name = "response" /\ d.state = challengedDigestMD5State
    THEN handleChallenged(d, elem, mocked)
    ELSE IF elem.name = "response" /\ d.state = authenticatedDigestMD5State
    THEN handleAuthenticated(d, elem)
    ELSE Return(d, errSASLNotAuthorized, <<>>, 0, {})

\* ProcessElement with handleAuthenticated as the default of the switch on
\* d.state under case "response"
ProcessElementResponseDefault(d, elem, nonce, mocked) ==
    IF Authenticated(d) THEN Return(d, nil, <<>>, 0, {})
    ELSE IF elem.name = "auth" /\ d.state = startDigestMD5State
    THEN handleStart(d, elem, nonce)
    ELSE IF elem.name = "response" /\ d.state = challengedDigestMD5State
    THEN handleChallenged(d, elem, mocked)
    ELSE IF elem.name = "response"
    THEN handleAuthenticated(d, elem)
    ELSE Return(d, errSASLNotAuthorized, <<>>, 0, {})

ProcessElement(d, elem, nonce, mocked) ==
    IF Authenticated(d) THEN Return(d, nil, <<>>, 0, {})
    ELSE IF elem.name = "auth" /\ d.state = startDigestMD5State
    THEN handleStart(d, elem, nonce)
    ELSE IF elem.name = "response" /\ d.state = challengedDigestMD5State
    THEN handleChallenged(d, elem, mocked)
    ELSE IF elem.name = "response" /\ d.state = authenticatedDigestMD5State
    THEN handleAuthenticated(d, elem)
    ELSE Return(d, errSASLNotAuthorized, <<>>, 0, {})

----------------------------------------------------------------------------
(* What a client can send. *)

\* the nonces util.RandomBytes(32), base64-encoded, can come out as
Nonces == { <<"n" \o ToString(i)>> : i \in 1..NumNonces }

xmppSlash == <<"x", "m", "p", "p", "/">>

\* the answer of a client that knows alice's password to the challenge with nonce n
GoodClient(n) ==
    [username |-> <<"alice">>, realm |-> Domain, nonce |-> n, cnonce |-> <<"c1">>,
     nc |-> <<"00000001">>, qop |-> <<"auth">>, servType |-> EmptyStr,
     digestURI |-> xmppSlash \o Domain, charset |-> <<"utf-8">>,
     authID |-> EmptyStr, password |-> <<"secret">>]

\* the same answer with one parameter changed
ClientsFor(n) ==
    LET g == GoodClient(n)
    IN  {g}
        \cup { [g EXCEPT !.realm = r] : r \in { <<"j", "x">>, EmptyStr } }
        \cup { [g EXCEPT !.nc = <<"00000002">>] }
        \cup { [g EXCEPT !.qop = <<"auth-int">>] }
        \cup { [g EXCEPT !.servType = t] : t \in { <<"xmpp">>, <<"imap">> } }
        \cup { [g EXCEPT !.digestURI = u] :
                  u \in { xmppSlash \o <<"j", "x">>, xmppSlash \o Domain \o <<"x">>,
                          <<"h", "t", "t", "p", "/">> \o Domain, <<"x", "m", "p", "p">>,
                          xmppSlash, EmptyStr } }
        \cup { [g EXCEPT !.username = u] :
                  u \in { <<"bob">>, <<"mallory">>, EmptyStr } }
        \cup { [g EXCEPT !.username = <<"bob">>, !.password = <<"hunter2">>] }
        \cup { [g EXCEPT !.password = <<"guess">>] }
        \cup { [g EXCEPT !.authID = <<"admin">>] }

\* the answers to the challenge with nonce n1, and the good answer to the others
Clients == ClientsFor(<<"n1">>) \cup { GoodClient(n) : n \in Nonces }

\* the response-value a client computes from its parameters and its password
ClientResponse(c) == computeResponse(c, [Password |-> c.password], TRUE)

Quoted(val) == <<"\"">> \o val \o <<"\"">>

\* the digest-response a client sends, before base64
FormatResponse(c) ==
    <<"username", "=">> \o Quoted(c.username)
        \o <<",", "realm", "=">> \o Quoted(c.realm)
        \o <<",", "nonce", "=">> \o Quoted(c.nonce)
        \o <<",", "cnonce", "=">> \o Quoted(c.cnonce)
        \o <<",", "nc", "=">> \o c.nc
        \o <<",", "qop", "=">> \o c.qop
        \o (IF Len(c.servType) > 0 THEN <<",", "serv-type", "=">> \o c.servType ELSE <<>>)
        \o <<",", "digest-uri", "=">> \o Quoted(c.digestURI)
        \o <<",", "response", "=">> \o ClientResponse(c)
        \o <<",", "charset", "=">> \o c.charset
        \o (IF Len(c.authID) > 0 THEN <<",", "authzid", "=">> \o Quoted(c.authID) ELSE <<>>)

\* payloads that exercise the parser: a key given twice, an unknown key, a
\* piece without "=", values without quotes
OddPayloads ==
    LET g == GoodClient(<<"n1">>)
        f == FormatResponse(g)
    IN  { <<"realm", "=", "j", "x", ",">> \o f,
          f \o <<",", "realm", "=", "j", "x">>,
          f \o <<",", "maxbuf", "=", "65536", ",", "junk">>,
          <<"junk">>,
          <<"username", "=", "alice", ",", "realm", "=">> \o Domain
              \o <<",", "nonce", "=", "n1", ",", "cnonce", "=", "c1">>
              \o <<",", "nc", "=", "00000001", ",", "qop", "=", "auth">>
              \o <<",", "digest-uri", "=">> \o g.digestURI
              \o <<",", "response", "=">> \o ClientResponse(g) }

\* a symbol outside the base64 alphabet
BadSymbol == <<"raw", "!">>

\* the texts of the response elements a client sends
ResponseTexts ==
    { EncodeToString(FormatResponse(c)) : c \in Clients }
        \cup { EncodeToString(b) : b \in OddPayloads }
        \cup { EmptyStr, <<BadSymbol>>,
               EncodeToString(FormatResponse(GoodClient(<<"n1">>))) \o <<BadSymbol>> }

\* the elements a client sends
Elements ==
    { NewElement("response", t) : t \in ResponseTexts }
        \cup { NewElement(n, t) :
                  n \in {"auth", "abort"},
                  t \in { EmptyStr, <<BadSymbol>>,
                          EncodeToString(FormatResponse(GoodClient(<<"n1">>))) } }

----------------------------------------------------------------------------
(* The seven checks of the response validation, as the specification lists   *)
(* them, on an element and the storage it is checked against.                *)

ParamsOf(elem) == parseParameters(DecodeString(elem.text).b)

WellEncoded(elem) == Len(elem.text) > 0 /\ ~DecodeString(elem.text).err

RealmOk(p) == p.realm = Domain
NcOk(p) == p.nc = <<"00000001">>
QopOk(p) == p.qop = <<"auth">>
ServTypeOk(p) == p.servType = EmptyStr \/ p.servType = <<"xmpp">>
DigestURIOk(p) == p.digestURI = xmppSlash \o Domain
FiveOk(p) == RealmOk(p) /\ NcOk(p) /\ QopOk(p) /\ ServTypeOk(p) /\ DigestURIOk(p)
LookupFails(p, mocked) == FetchUser(p.username, mocked).err # nil
UserKnown(p, mocked) ==
    ~LookupFails(p, mocked) /\ ~FetchUser(p.username, mocked).user.isNil
DigestOk(p, mocked) ==
    computeResponse(p, FetchUser(p.username, mocked).user, TRUE) = p.response

PassesChecks(elem, mocked) ==
    /\ WellEncoded(elem)
    /\ \E p \in { ParamsOf(elem) } :
           FiveOk(p) /\ UserKnown(p, mocked) /\ DigestOk(p, mocked)

\* the element passes the validation its state demands: Challenged alone
\* validates what it receives
Validated(st, elem, mocked) ==
    st = challengedDigestMD5State => PassesChecks(elem, mocked)

----------------------------------------------------------------------------
(* The storage package's state.  Its functions are called from several      *)
(* threads; each statement that reads or writes inst, initialized or instMu *)
(* is a step of its own.                                                    *)

Threads == 1..NumThreads

\* no thread
NoThread == 0

\* the nil Storage
nilStorage == "nil"

\* cfg.Type: the three types Initialize has a case for, and one it has not
BadgerDB == "BadgerDB"
MySQL == "MySQL"
Mock == "Mock"
UnknownType == "Unknown"

BackendTypes == { BadgerDB, MySQL, Mock }

ConfigTypes == BackendTypes \cup { UnknownType }

\* what the case of Initialize's switch for the type ty constructs
NewBackend(ty) ==
    CASE ty = BadgerDB -> "badgerDB"
      [] ty = MySQL -> "sqlStorage"
      [] ty = Mock -> "mockStorage"

\* instMu, unlocked
Unlocked == [writer |-> NoThread, readers |-> {}]

\* no thread is inside the package and nothing is recorded of its calls
StorageIdle ==
    /\ instMu = Unlocked
    /\ pc = [t \in Threads |-> "idle"]
    /\ cfgType = [t \in Threads |-> Mock]
    /\ crashed = "no"
    /\ afterInit = [t \in Threads |-> FALSE]

\* the package's variables when the process starts
StorageDown ==
    /\ inst = nilStorage
    /\ initialized = 0
    /\ StorageIdle
    /\ initReturned = FALSE
    /\ invoked = {}
    /\ built = 0

\* the package after Initialize with the Mock type has returned: the
\* authenticator runs over it
StorageReady ==
    /\ inst = NewBackend(Mock)
    /\ initialized = 1
    /\ StorageIdle
    /\ initReturned = TRUE
    /\ invoked = { "Initialize" }
    /\ built = 1

----------------------------------------------------------------------------
(* The state machine. *)

\* d, the digestMD5Authenticator
Session == [state |-> state, username |-> username, authenticated |-> authenticated]

NoElement == NewElement("", EmptyStr)

Call(op, elem, pre, mocked, ret) ==
    [op |-> op, elem |-> elem, pre |-> pre, mocked |-> mocked,
     err |-> ret.err, out |-> ret.out, lookups |-> ret.lookups,
     fetched |-> ret.fetched]

InitSession ==
    /\ state = newDigestMD5.state
    /\ username = newDigestMD5.username
    /\ authenticated = newDigestMD5.authenticated
    /\ mockedError = FALSE
    /\ call = Call("newDigestMD5", NoElement, newDigestMD5, FALSE,
                   Return(newDigestMD5, nil, <<>>, 0, {}))
    /\ trail = <<>>
    /\ sent = <<>>
    /\ looked = {}
    /\ lookups = 0
    /\ refused = FALSE

Init == InitSession /\ StorageReady

\* what util.RandomBytes can return to the call: it is called by handleStart alone
RandomNonces(d, elem) ==
    IF ~Authenticated(d) /\ elem.name = "auth" /\ d.state = startDigestMD5State
    THEN Nonces
    ELSE { EmptyStr }

\* the connection handler feeds one element to the session
ProcessElementCall ==
    \E elem \in Elements : \E nonce \in RandomNonces(Session, elem) :
        \E ret \in { ProcessElement(Session, elem, nonce, mockedError) } :
            /\ lookups + ret.lookups <= MaxLookups
            /\ state' = ret.d.state
            /\ username' = ret.d.username
            /\ authenticated' = ret.d.authenticated
            /\ call' = Call("ProcessElement", elem, Session, mockedError, ret)
            /\ trail' = IF ret.err = nil /\ ~Authenticated(Session)
                        THEN Append(trail, [state |-> state, name |-> elem.name,
                                            passed |-> Validated(state, elem, mockedError)])
                        ELSE trail
            /\ sent' = sent \o ret.out
            /\ looked' = looked \cup ret.fetched
            /\ lookups' = lookups + ret.lookups
            /\ refused' = (refused \/ (/\ ~Authenticated(Session)
                                       /\ state = challengedDigestMD5State
                                       /\ ret.err # nil))
            /\ UNCHANGED <<mockedError, storageVars>>

\* the connection handler restarts the mechanism
ResetCall ==
    LET d == Reset(Session)
    IN  /\ state' = d.state
        /\ username' = d.username
        /\ authenticated' = d.authenticated
        /\ call' = Call("Reset", NoElement, Session, mockedError,
                        Return(d, nil, <<>>, 0, {}))
        /\ trail' = <<>>
        /\ sent' = <<>>
        /\ looked' = {}
        /\ lookups' = 0
        /\ refused' = FALSE
        /\ UNCHANGED <<mockedError, storageVars>>

\* the switch on inst's type has a case for the mock storage alone
ActivateMockedError ==
    /\ instMu = Unlocked
    /\ mockedError' = IF inst = NewBackend(Mock) THEN TRUE ELSE mockedError
    /\ UNCHANGED <<sessionVars, storageVars>>

DeactivateMockedError ==
    /\ instMu = Unlocked
    /\ mockedError' = IF inst = NewBackend(Mock) THEN FALSE ELSE mockedError
    /\ UNCHANGED <<sessionVars, storageVars>>

Next ==
    \/ ProcessElementCall
    \/ ResetCall
    \/ ActivateMockedError
    \/ DeactivateMockedError

Spec == Init /\ [][Next]_vars

----------------------------------------------------------------------------
(* The storage package under concurrent calls.  A thread outside the        *)
(* package calls one of Initialize, Instance and Shutdown; log.Fatalf and   *)
(* a nil dereference end the process, and no step follows.                  *)

Running == crashed = "no"

Goto(t, l) == pc' = [pc EXCEPT ![t] = l]

\* Initialize(cfg), to the end of its compare-and-swap: the call returns at
\* once when initialized is not 0
InitializeCAS(t) ==
    /\ Running
    /\ pc[t] = "idle"
    /\ \E ty \in ConfigTypes :
        /\ cfgType' = [cfgType EXCEPT ![t] = ty]
        /\ invoked' = invoked \cup
               { IF ty \in BackendTypes THEN "Initialize" ELSE "InitializeUnknown" }
    /\ IF initialized = 0
       THEN /\ initialized' = 1
            /\ Goto(t, "init_lock")
            /\ UNCHANGED initReturned
       ELSE /\ initReturned' = TRUE
            /\ UNCHANGED <<initialized, pc>>
    /\ UNCHANGED <<inst, instMu, crashed, afterInit, built>>

\* instMu.Lock() in Initialize
InitializeLock(t) ==
    /\ Running
    /\ pc[t] = "init_lock"
    /\ instMu = Unlocked
    /\ instMu' = [instMu EXCEPT !.writer = t]
    /\ Goto(t, "init_switch")
    /\ UNCHANGED <<inst, initialized, cfgType, crashed, initReturned, afterInit,
                   invoked, built>>

\* the switch on cfg.Type: its default case assigns nothing
InitializeSwitch(t) ==
    /\ Running
    /\ pc[t] = "init_switch"
    /\ IF cfgType[t] \in BackendTypes
       THEN /\ inst' = NewBackend(cfgType[t])
            /\ built' = built + 1
       ELSE UNCHANGED <<inst, built>>
    /\ Goto(t, "init_unlock")
    /\ UNCHANGED <<initialized, instMu, cfgType, crashed, initReturned,
                   afterInit, invoked>>

\* the deferred instMu.Unlock() and the return of Initialize
InitializeUnlock(t) ==
    /\ Running
    /\ pc[t] = "init_unlock"
    /\ instMu' = Unlocked
    /\ initReturned' = TRUE
    /\ Goto(t, "idle")
    /\ UNCHANGED <<inst, initialized, cfgType, crashed, afterInit, invoked,
                   built>>

\* Instance() is called
InstanceCall(t) ==
    /\ Running
    /\ pc[t] = "idle"
    /\ afterInit' = [afterInit EXCEPT ![t] = initReturned]
    /\ invoked' = invoked \cup { "Instance" }
    /\ Goto(t, "inst_rlock")
    /\ UNCHANGED <<inst, initialized, instMu, cfgType, crashed, initReturned,
                   built>>

\* instMu.RLock() in Instance
InstanceRLock(t) ==
    /\ Running
    /\ pc[t] = "inst_rlock"
    /\ instMu.writer = NoThread
    /\ instMu' = [instMu EXCEPT !.readers = @ \cup { t }]
    /\ Goto(t, "inst_check")
    /\ UNCHANGED <<inst, initialized, cfgType, crashed, initReturned, afterInit,
                   invoked, built>>

\* the test of inst against nil: log.Fatalf exits the process
InstanceCheck(t) ==
    /\ Running
    /\ pc[t] = "inst_check"
    /\ IF inst = nilStorage
       THEN /\ crashed' = "fatal"
            /\ Goto(t, "fatal")
       ELSE /\ Goto(t, "inst_runlock")
            /\ UNCHANGED crashed
    /\ UNCHANGED <<inst, initialized, instMu, cfgType, initReturned, afterInit,
                   invoked, built>>

\* the deferred instMu.RUnlock() and the return of Instance
InstanceRUnlock(t) ==
    /\ Running
    /\ pc[t] = "inst_runlock"
    /\ instMu' = [instMu EXCEPT !.readers = @ \ { t }]
    /\ Goto(t, "idle")
    /\ UNCHANGED <<inst, initialized, cfgType, crashed, initReturned, afterInit,
                   invoked, built>>

\* Shutdown(), to the end of its compare-and-swap: the call returns at once
\* when initialized is not 1
ShutdownCAS(t) ==
    /\ Running
    /\ pc[t] = "idle"
    /\ invoked' = invoked \cup { "Shutdown" }
    /\ IF initialized = 1
       THEN /\ initialized' = 0
            /\ Goto(t, "sd_lock")
       ELSE UNCHANGED <<initialized, pc>>
    /\ UNCHANGED <<inst, instMu, cfgType, crashed, initReturned, afterInit,
                   built>>

\* instMu.Lock() in Shutdown
ShutdownLock(t) ==
    /\ Running
    /\ pc[t] = "sd_lock"
    /\ instMu = Unlocked
    /\ instMu' = [instMu EXCEPT !.writer = t]
    /\ Goto(t, "sd_call")
    /\ UNCHANGED <<inst, initialized, cfgType, crashed, initReturned, afterInit,
                   invoked, built>>

\* inst.Shutdown(): a method call on the nil interface panics, the deferred
\* Unlock runs and the process ends
ShutdownCall(t) ==
    /\ Running
    /\ pc[t] = "sd_call"
    /\ IF inst = nilStorage
       THEN /\ crashed' = "panic"
            /\ instMu' = Unlocked
            /\ Goto(t, "panic")
       ELSE /\ Goto(t, "sd_clear")
            /\ UNCHANGED <<crashed, instMu>>
    /\ UNCHANGED <<inst, initialized, cfgType, initReturned, afterInit, invoked,
                   built>>

\* inst = nil
ShutdownClear(t) ==
    /\ Running
    /\ pc[t] = "sd_clear"
    /\ inst' = nilStorage
    /\ built' = 0
    /\ Goto(t, "sd_unlock")
    /\ UNCHANGED <<initialized, instMu, cfgType, crashed, initReturned,
                   afterInit, invoked>>

\* the deferred instMu.Unlock() and the return of Shutdown
ShutdownUnlock(t) ==
    /\ Running
    /\ pc[t] = "sd_unlock"
    /\ instMu' = Unlocked
    /\ Goto(t, "idle")
    /\ UNCHANGED <<inst, initialized, cfgType, crashed, initReturned, afterInit,
                   invoked, built>>

Initialize ==
    \E t \in Threads :
        /\ \/ InitializeCAS(t)
           \/ InitializeLock(t)
           \/ InitializeSwitch(t)
           \/ InitializeUnlock(t)
        /\ UNCHANGED <<sessionVars, mockedError>>

Instance ==
    \E t \in Threads :
        /\ \/ InstanceCall(t)
           \/ InstanceRLock(t)
           \/ InstanceCheck(t)
           \/ InstanceRUnlock(t)
        /\ UNCHANGED <<sessionVars, mockedError>>

Shutdown ==
    \E t \in Threads :
        /\ \/ ShutdownCAS(t)
           \/ ShutdownLock(t)
           \/ ShutdownCall(t)
           \/ ShutdownClear(t)
           \/ ShutdownUnlock(t)
        /\ UNCHANGED <<sessionVars, mockedError>>

InitStorage == InitSession /\ StorageDown

NextStorage ==
    \/ Initialize
    \/ Instance
    \/ Shutdown

SpecStorage == InitStorage /\ [][NextStorage]_vars

----------------------------------------------------------------------------
(* What the last call was, for the properties below.  call.pre is the       *)
(* session before the call and Session the session it left: the storage's   *)
(* switches are the only other thing that changes, and they are not part    *)
(* of it.                                                                   *)

Processed == call.op = "ProcessElement"

\* the last call was ProcessElement on a session not yet authenticated
ProcessedUnauthenticated == Processed /\ ~call.pre.authenticated

\* the last call was a response received in Challenged
RespondedInChallenged ==
    /\ ProcessedUnauthenticated
    /\ call.elem.name = "response"
    /\ call.pre.state = challengedDigestMD5State

\* the element's name is what the state st expects
Expected(st, name) ==
    \/ st = startDigestMD5State /\ name = "auth"
    \/ st = challengedDigestMD5State /\ name = "response"
    \/ st = authenticatedDigestMD5State /\ name = "response"

\* the call left the session as it found it and sent nothing
NoEffect == Session = call.pre /\ call.out = <<>>

----------------------------------------------------------------------------
\* C1: the session is authenticated only if the calls that returned nil since
\* construction or the last Reset are, in this order, an auth element received
\* in Start, a response received in Challenged that passed every check of the
\* validation, and a response received in Authenticated-pending.
C1_NoBypass ==
    authenticated =>
        /\ Len(trail) = 3
        /\ trail[1].state = startDigestMD5State /\ trail[1].name = "auth"
        /\ trail[2].state = challengedDigestMD5State /\ trail[2].name = "response"
        /\ trail[2].passed
        /\ trail[3].state = authenticatedDigestMD5State /\ trail[3].name = "response"

\* the session has just been authenticated by the final response
C1_Witness ==
    /\ authenticated
    /\ ProcessedUnauthenticated
    /\ call.pre.state = authenticatedDigestMD5State

\* C2: an authenticated session has a non-empty username, and it is the
\* username of a credential that a lookup of the current attempt returned
\* (without error, found).
C2_UsernameLookedUp ==
    authenticated =>
        /\ username # EmptyStr
        /\ \E u \in looked : ~u.isNil /\ u.Username = username

C2_Witness == authenticated /\ username = <<"alice">> /\ Cardinality(looked) = 1

\* C3: on a session not yet authenticated, an element whose name is not what
\* the state expects is refused with errSASLNotAuthorized, and the call changes
\* nothing of the session and sends nothing.
C3_UnexpectedRejected ==
    (ProcessedUnauthenticated /\ ~Expected(call.pre.state, call.elem.name)) =>
        call.err = errSASLNotAuthorized /\ NoEffect

\* an auth element has been refused in Challenged
C3_Witness ==
    /\ ProcessedUnauthenticated
    /\ call.pre.state = challengedDigestMD5State
    /\ call.elem.name = "auth"
    /\ call.err = errSASLNotAuthorized

\* C4: Reset leaves the session as newDigestMD5 makes it, whatever it was, and
\* the session then takes an auth element (answering with a challenge) and
\* refuses every response.
C4_ResetToStart ==
    call.op = "Reset" =>
        /\ Session = newDigestMD5
        /\ \A e \in Elements : \A n \in RandomNonces(Session, e) :
              \E r \in { ProcessElement(Session, e, n, mockedError) } :
                 /\ e.name = "auth" =>
                       /\ r.err = nil
                       /\ r.d.state = challengedDigestMD5State
                       /\ Len(r.out) = 1 /\ r.out[1].name = "challenge"
                 /\ e.name = "response" =>
                       r.err = errSASLNotAuthorized /\ r.d = Session

\* Reset has been called on an authenticated session
C4_Witness ==
    /\ call.op = "Reset"
    /\ call.pre.authenticated
    /\ call.pre.username # EmptyStr
    /\ call.pre.state = authenticatedDigestMD5State

\* C5: on an authenticated session ProcessElement returns nil for any element,
\* changes nothing of the session, sends nothing and looks no user up.
C5_AuthenticatedNoOp ==
    (Processed /\ call.pre.authenticated) =>
        call.err = nil /\ NoEffect /\ call.lookups = 0 /\ call.fetched = {}

\* a response that would pass the validation was fed to an authenticated session
C5_Witness ==
    /\ Processed /\ call.pre.authenticated
    /\ call.elem.name = "response"
    /\ PassesChecks(call.elem, call.mocked)

\* C6: a response received in Challenged moves the session to
\* Authenticated-pending exactly when its text is non-empty valid base64 and
\* its parameters pass the seven checks; the call then sends one challenge
\* carrying rspauth=<the digest computed with asClient false> and sets
\* d.username to the username of the credential looked up.
C6_ChallengedResponse ==
    RespondedInChallenged =>
        \E p \in { ParamsOf(call.elem) } :
        \E fu \in { FetchUser(p.username, call.mocked) } :
            /\ state = authenticatedDigestMD5State
                  <=> PassesChecks(call.elem, call.mocked)
            /\ state = authenticatedDigestMD5State =>
                  /\ call.err = nil
                  /\ call.out =
                        << NewElement("challenge",
                               EncodeToString(<<"rspauth", "=">>
                                   \o computeResponse(p, fu.user, FALSE))) >>
                  /\ username = fu.user.Username
                  /\ ~authenticated

\* a response that passes the checks was accepted in Challenged
C6_Witness ==
    /\ RespondedInChallenged
    /\ state = authenticatedDigestMD5State
    /\ username = <<"bob">>

\* the outcome of a call that its caller sees
Outcome(r) == [err |-> r.err, out |-> r.out, d |-> r.d]

\* the element is one of the not-authorized cases of the response validation:
\* it is well encoded and fails one of the five parameter checks, or names an
\* unknown user, or carries the wrong digest
NotAuthorizedCase(elem, mocked) ==
    /\ elem.name = "response"
    /\ WellEncoded(elem)
    /\ \E p \in { ParamsOf(elem) } :
           \/ ~FiveOk(p)
           \/ ~LookupFails(p, mocked) /\ ~UserKnown(p, mocked)
           \/ UserKnown(p, mocked) /\ ~DigestOk(p, mocked)

\* C7: in Challenged every not-authorized case of a response has one and the
\* same outcome: errSASLNotAuthorized, nothing sent, the session as it was; an
\* unknown user and a known user with a wrong digest cannot be told apart.
C7_UniformRejection ==
    /\ (state = challengedDigestMD5State /\ ~authenticated) =>
          { Outcome(ProcessElement(Session, e, EmptyStr, mockedError)) :
               e \in { x \in Elements : NotAuthorizedCase(x, mockedError) } }
             = { [err |-> errSASLNotAuthorized, out |-> <<>>, d |-> Session] }
    /\ (RespondedInChallenged /\ NotAuthorizedCase(call.elem, call.mocked)) =>
          call.err = errSASLNotAuthorized /\ NoEffect

\* a response naming an unknown user, right in all else, was refused
C7_Witness ==
    /\ RespondedInChallenged
    /\ \E p \in { ParamsOf(call.elem) } :
          /\ FiveOk(p)
          /\ ~LookupFails(p, call.mocked)
          /\ ~UserKnown(p, call.mocked)
    /\ call.err = errSASLNotAuthorized

\* C8: when the lookup made for a response in Challenged returns an error,
\* ProcessElement returns that error, not errSASLNotAuthorized, sends nothing
\* and leaves the session in Challenged with no username, not authenticated.
C8_StorageErrorSurfaced ==
    (/\ RespondedInChallenged
     /\ call.lookups > 0
     /\ LookupFails(ParamsOf(call.elem), call.mocked)) =>
        /\ call.err = FetchUser(ParamsOf(call.elem).username, call.mocked).err
        /\ call.err # errSASLNotAuthorized
        /\ call.out = <<>>
        /\ state = challengedDigestMD5State
        /\ username = EmptyStr
        /\ ~authenticated

\* the lookup failed for a response that would have passed otherwise
C8_Witness ==
    /\ RespondedInChallenged
    /\ call.lookups = 1
    /\ call.mocked
    /\ PassesChecks(call.elem, FALSE)
    /\ call.err = ErrMockedError

\* C9: in Challenged a response with an empty text gets
\* errSASLMalformedRequest and one whose text is not base64 gets
\* errSASLIncorrectEncoding, neither being errSASLNotAuthorized; no user is
\* looked up, nothing is sent and the session stays as it was, in Challenged.
C9_MalformedAndEncoding ==
    /\ errSASLMalformedRequest # errSASLNotAuthorized
    /\ errSASLIncorrectEncoding # errSASLNotAuthorized
    /\ errSASLMalformedRequest # errSASLIncorrectEncoding
    /\ (RespondedInChallenged /\ Len(call.elem.text) = 0) =>
          /\ call.err = errSASLMalformedRequest
          /\ call.lookups = 0 /\ NoEffect /\ state = challengedDigestMD5State
    /\ (/\ RespondedInChallenged
        /\ Len(call.elem.text) > 0
        /\ DecodeString(call.elem.text).err) =>
          /\ call.err = errSASLIncorrectEncoding
          /\ call.lookups = 0 /\ NoEffect /\ state = challengedDigestMD5State

\* a text that is base64 up to its last symbol was refused while the storage
\* was failing
C9_Witness ==
    /\ RespondedInChallenged
    /\ Len(call.elem.text) > 1
    /\ DecodeString(call.elem.text).err
    /\ call.mocked
    /\ call.err = errSASLIncorrectEncoding

\* an empty response was refused in Challenged
C9_WitnessEmpty ==
    /\ RespondedInChallenged
    /\ Len(call.elem.text) = 0
    /\ call.err = errSASLMalformedRequest

\* C10: a ProcessElement call that returns an error leaves state, username and
\* authenticated as they were; a refused response in Challenged leaves the
\* session in Challenged without a username.
C10_ErrorLeavesSession ==
    /\ (Processed /\ call.err # nil) => Session = call.pre
    /\ (RespondedInChallenged /\ call.err # nil) =>
          state = challengedDigestMD5State /\ username = EmptyStr

\* a response of a known user with a wrong digest was refused after the lookup
C10_Witness ==
    /\ RespondedInChallenged
    /\ call.err = errSASLNotAuthorized
    /\ call.fetched # {}
    /\ Session = call.pre

----------------------------------------------------------------------------
\* the last call was a response received in Authenticated-pending
RespondedInPending ==
    /\ ProcessedUnauthenticated
    /\ call.elem.name = "response"
    /\ call.pre.state = authenticatedDigestMD5State

\* the Done state of the specification's data model; digestMD5State has no
\* such value
doneState == "done"

\* what the final confirmation does, but for where it leaves d.state
FinalConfirmationEffect ==
    /\ call.err = nil
    /\ call.out = << NewElement("success", EmptyStr) >>
    /\ authenticated
    /\ username = call.pre.username
    /\ call.lookups = 0 /\ call.fetched = {}

\* C11 (as amended): in Authenticated-pending any response, whatever its
\* text and whatever the storage would answer, makes the session send one
\* success element and set d.authenticated, with no lookup and no digest
\* comparison; d.state stays authenticatedDigestMD5State, the code having no
\* state after it.
C11_FinalConfirmation ==
    RespondedInPending =>
        FinalConfirmationEffect /\ state = authenticatedDigestMD5State

\* a response that is not base64 confirmed the session while the storage
\* was failing
C11_Witness ==
    /\ RespondedInPending
    /\ DecodeString(call.elem.text).err
    /\ call.mocked
    /\ authenticated

\* C11 (as stated): the final confirmation moves the session to the Done
\* state.
C11_AsStated ==
    RespondedInPending => FinalConfirmationEffect /\ state = doneState

----------------------------------------------------------------------------
\* C12 (as amended): a ProcessElement call on a session not yet
\* authenticated sends exactly one element when it returns nil and none when
\* it returns an error.
C12_OneElementOnSuccess ==
    ProcessedUnauthenticated =>
        Len(call.out) = (IF call.err = nil THEN 1 ELSE 0)

\* the auth element was answered with one challenge
C12_Witness ==
    /\ ProcessedUnauthenticated
    /\ call.pre.state = startDigestMD5State
    /\ call.err = nil
    /\ Len(call.out) = 1 /\ call.out[1].name = "challenge"

\* C12 (as stated): every ProcessElement call on a session not yet
\* authenticated sends exactly one element, whether it succeeds or fails.
C12_AsStated == ProcessedUnauthenticated => Len(call.out) = 1

----------------------------------------------------------------------------
\* the call looked a user up: FetchUser is called once, and by handleChallenged
\* alone, after the text decoded and the five parameter checks passed
ReachesLookup(c) ==
    /\ c.op = "ProcessElement"
    /\ ~c.pre.authenticated
    /\ c.elem.name = "response"
    /\ c.pre.state = challengedDigestMD5State
    /\ WellEncoded(c.elem)
    /\ FiveOk(ParamsOf(c.elem))

\* C13 (as amended): FetchUser is called at most once by a ProcessElement
\* call, and exactly by the calls that handle a well-encoded response in
\* Challenged whose five parameter checks pass.  An attempt has made no
\* lookup while in Start, and at least one (not exactly one) once it is in
\* Authenticated-pending or authenticated.
C13_LookupsPerAttempt ==
    /\ Processed => call.lookups = (IF ReachesLookup(call) THEN 1 ELSE 0)
    /\ state = startDigestMD5State => lookups = 0
    /\ state = authenticatedDigestMD5State => lookups >= 1

\* a session was authenticated after two lookups: a refused digest, then
\* the right one
C13_Witness == authenticated /\ lookups = 2 /\ Cardinality(looked) = 1

\* C13 (as stated): an attempt, from the auth element accepted in Start to
\* the authentication of the session or to Reset, makes exactly one lookup.
C13_AsStated ==
    [][ /\ (authenticated' /\ ~authenticated) => lookups' = 1
        /\ (call'.op = "Reset" /\ state # startDigestMD5State) => lookups = 1 ]_vars

\* the part of C13 as stated for the attempts that end authenticated
C13_AsStatedAuthenticated == authenticated => lookups = 1

----------------------------------------------------------------------------
\* C14: a well-encoded response in Challenged that fails one of the checks
\* on realm, nc, qop, serv-type and digest-uri is refused with
\* errSASLNotAuthorized without FetchUser being called, whatever the storage
\* would have answered; a lookup, and so a storage error, is seen only for a
\* response that passed the five.
C14_ShortCircuit ==
    /\ (/\ RespondedInChallenged
        /\ WellEncoded(call.elem)
        /\ ~FiveOk(ParamsOf(call.elem))) =>
          /\ call.lookups = 0 /\ call.fetched = {}
          /\ call.err = errSASLNotAuthorized
    /\ (Processed /\ (call.lookups > 0 \/ call.err = ErrMockedError)) =>
          RespondedInChallenged /\ WellEncoded(call.elem)
              /\ FiveOk(ParamsOf(call.elem))

\* a response wrong in its digest-uri alone was refused, unlooked-up, while
\* the storage was failing
C14_Witness ==
    /\ RespondedInChallenged
    /\ WellEncoded(call.elem)
    /\ \E p \in { ParamsOf(call.elem) } :
          RealmOk(p) /\ NcOk(p) /\ QopOk(p) /\ ServTypeOk(p) /\ ~DigestURIOk(p)
    /\ call.mocked
    /\ call.err = errSASLNotAuthorized
    /\ call.lookups = 0

----------------------------------------------------------------------------
\* how far a session is along Start, Challenged, Authenticated-pending, Done;
\* Done is Authenticated-pending with d.authenticated set
Rank(d) ==
    IF d.authenticated THEN 3
    ELSE IF d.state = authenticatedDigestMD5State THEN 2
    ELSE IF d.state = challengedDigestMD5State THEN 1
    ELSE 0

\* C15: a ProcessElement call leaves the session where it was or moves it
\* one step forward along Start, Challenged, Authenticated-pending, Done,
\* never back and never two steps at once; Reset alone moves it back.
C15_ForwardOnly ==
    /\ Processed => Rank(Session) \in { Rank(call.pre), Rank(call.pre) + 1 }
    /\ Rank(Session) < Rank(call.pre) => call.op = "Reset"
    /\ authenticated => state = authenticatedDigestMD5State

\* the session has moved from Authenticated-pending to Done, and it had a
\* response refused on its way
C15_Witness ==
    /\ Processed
    /\ Rank(call.pre) = 2 /\ Rank(Session) = 3
    /\ lookups > 1

----------------------------------------------------------------------------
\* C16 (as amended): an error returned by a call made in Challenged does not
\* abort the attempt.  The session stays in Challenged, never back in Start,
\* and a later response moves it to Authenticated-pending exactly when it
\* passes the validation, without Reset and without a new challenge.
C16_RefusalKeepsAttempt ==
    /\ refused => state \in { challengedDigestMD5State, authenticatedDigestMD5State }
    /\ (refused /\ RespondedInChallenged) =>
          (state = authenticatedDigestMD5State
              <=> PassesChecks(call.elem, call.mocked))

\* a response was accepted in Challenged after another had been refused there
C16_Witness ==
    /\ refused
    /\ RespondedInChallenged
    /\ call.err = nil
    /\ state = authenticatedDigestMD5State

\* C16 (as stated): once a call made in Challenged has returned an error, no
\* response moves the session to Authenticated-pending before Reset.
C16_AsStated == refused => state = challengedDigestMD5State

----------------------------------------------------------------------------
\* the nonce of the challenge the session sent in the current attempt
IssuedNonce == parseParameters(DecodeString(sent[1].text).b).nonce

\* C17: a response is accepted in Challenged only if its nonce is the one the
\* server issued in the challenge of the current attempt, so that a response
\* accepted in an earlier attempt is refused when it is replayed.
C17_NonceVerified ==
    (RespondedInChallenged /\ state = authenticatedDigestMD5State) =>
        ParamsOf(call.elem).nonce = IssuedNonce

----------------------------------------------------------------------------
\* the text of an outbound element, decoded
Decoded(e) == DecodeString(e.text).b

\* C18: the elements a session has sent since construction or the last Reset
\* are the first Rank(Session) of: the challenge carrying realm and nonce,
\* the challenge carrying rspauth, the success element.  So success never
\* goes without the rspauth challenge before it, and nothing is sent twice.
C18_OutboundPrefix ==
    /\ Len(sent) = Rank(Session)
    /\ Len(sent) >= 1 =>
          /\ sent[1].name = "challenge"
          /\ HasPrefix(Decoded(sent[1]), <<"realm", "=">>)
          /\ parseParameters(Decoded(sent[1])).realm = Domain
          /\ IssuedNonce \in Nonces
    /\ Len(sent) >= 2 =>
          /\ sent[2].name = "challenge"
          /\ HasPrefix(Decoded(sent[2]), <<"rspauth", "=", "hex(">>)
    /\ Len(sent) >= 3 => sent[3] = NewElement("success", EmptyStr)
    /\ \A i, j \in 1..Len(sent) : sent[i] = sent[j] => i = j

\* a session has sent all three, after a response of its attempt was refused
C18_Witness == Len(sent) = 3 /\ refused /\ authenticated


----------------------------------------------------------------------------
(* The storage singleton under concurrent calls.                            *)

\* the threads have called nothing but Initialize, with a type it has a
\* backend for, and Instance
OnlyInitializeAndInstance == invoked \subseteq { "Initialize", "Instance" }

\* C19: with threads calling Initialize (with a type that has a backend) and
\* Instance concurrently, the backend is constructed at most once between
\* shutdowns, and no call of Instance that began after a call of Initialize
\* had returned reaches the fatal "storage subsystem not initialized" branch
C19_InitializedOnceAndUsable ==
    OnlyInitializeAndInstance =>
        /\ built <= 1
        /\ \A t \in Threads : pc[t] = "fatal" => ~afterInit[t]

\* C20: whenever Shutdown has won the compare-and-swap of initialized from 1
\* to 0, inst is not nil at the call of inst.Shutdown(), whatever calls of
\* Initialize and Shutdown ran beside it and whatever type Initialize was
\* given, and once inst is cleared it is nil with initialized at 0
C20_ShutdownOnInstance ==
    \A t \in Threads :
        /\ pc[t] = "sd_call" => inst # nilStorage
        /\ pc[t] # "panic"
        /\ pc[t] = "sd_unlock" => inst = nilStorage /\ initialized = 0

====
